---- MODULE Spec2Model ----
(***************************************************************************)
(* Model of scripts/run_pipeline.py: main() and detect().                  *)
(*                                                                         *)
(* One invocation of the script is modelled from argument parsing to       *)
(* process exit.  The file system of the output directory (stats.jsonl,    *)
(* the directories, overlay.mp4) outlives an invocation; everything else   *)
(* is local to it.                                                         *)
(*                                                                         *)
(* Numbers.  --every-seconds and --max-seconds are floats; they are        *)
(* modelled as exact rationals [num, den] with den a power of two.  The    *)
(* frame rate is an integer.  On these inputs the float products and       *)
(* quotients of the source are exact, so the integer arithmetic below is   *)
(* the arithmetic of the source.  An absent optional value (None) is the   *)
(* empty sequence, a present one a one-element sequence.                   *)
(***************************************************************************)
EXTENDS Integers, Sequences, FiniteSets, TLC

\* ------------------------------------------------------------------ bounds

\* Longest source: the video holds between 0 and MaxSourceFrames frames.
MaxSourceFrames == 4

\* Number of invocations of the script against the same output directory.
MaxRuns == 2

\* ------------------------------------------------------- program constants

\* fps = 30.0  (safe fallback for weird files)
FALLBACK_FPS == 30

\* def draw_path(img, pts, tail: int = 40)
TAIL == 40

\* 'args' in globals(): args is a local of main(), never a module global.
ArgsInGlobals == FALSE

Rat(n, d) == [num |-> n, den |-> d]

None == <<>>
Some(v) == <<v>>
IsNone(o) == o = <<>>
Val(o) == o[1]

\* ------------------------------------------------------------------ inputs

\* What cap.get(CAP_PROP_FPS) reports; 0 stands for "no fps".
ReportedFps == {0, 2}

\* What detect_ball_centers_stub returns for a frame: a list of centers.
Detections == {<<>>, <<2, 1>>}

\* --rim-roi: absent, "x1,y1,x2,y2", or text parse_roi cannot read.
RoiArgs == {"absent", "wellformed", "malformed"}

\* The command lines of the single-invocation specification.
Args ==
    [ every_seconds    : {None, Some(Rat(0, 1)), Some(Rat(1, 4)), Some(Rat(5, 4))},
      max_seconds      : {None, Some(Rat(0, 1)), Some(Rat(3, 4)), Some(Rat(3, 2))},
      frame_stride     : {-2, 0, 1, 2},
      max_frames       : {-1, 0, 1, 3},
      bootstrap_frames : {0, 1, 2},
      overlay          : BOOLEAN,
      save_video       : BOOLEAN,
      write_frames     : BOOLEAN,
      dry_run          : BOOLEAN,
      rim_roi          : RoiArgs ]

\* The command lines of the repeated-invocation specification.
RunsArgs ==
    [ every_seconds    : {None, Some(Rat(0, 1))},
      max_seconds      : {None},
      frame_stride     : {0, 1, 2},
      max_frames       : {1, 2},
      bootstrap_frames : {1},
      overlay          : BOOLEAN,
      save_video       : {FALSE},
      write_frames     : {TRUE},
      dry_run          : BOOLEAN,
      rim_roi          : {"absent", "malformed"} ]

NoArgs ==
    [ every_seconds |-> None, max_seconds |-> None, frame_stride |-> 1,
      max_frames |-> 100, bootstrap_frames |-> 30, overlay |-> FALSE,
      save_video |-> FALSE, write_frames |-> FALSE, dry_run |-> FALSE,
      rim_roi |-> "absent" ]

\* ------------------------------------------------------------------- state

VARIABLES
    pc,               \* position in main() / detect()
    outcome,          \* how the invocation ended: "running", "returned", or the exception
    run_no,           \* invocations started so far
    args,             \* the parsed command line
    plan_printed,     \* the dry-run plan went to standard output
    cap,              \* the cv.VideoCapture: "none", "open", "released"
    src_pos,          \* frames the capture has delivered
    src_eof,          \* the capture has reported end-of-stream
    src_endless,      \* the source is a live stream: it never reports end-of-stream
    reported_fps,     \* what cap.get(CAP_PROP_FPS) returned
    fps,
    frame_stride,     \* the local of detect(), after the every-seconds override
    cap_by_time,
    effective_cap,
    out_dir_exists,
    frames_dir_exists,
    overlay_file,     \* overlay.mp4 exists in the output directory
    writer,           \* the cv.VideoWriter: "none", "open", "released"
    out_fps,          \* the frame rate the writer was created with, or None
    actual_warmup,
    recent_centers,
    frames_processed,
    frame_index,
    loop_state,       \* which exit the while loop took
    detector_calls,   \* frames handed to detect_ball_centers_stub
    render_calls,     \* frames drawn on
    writer_writes,    \* frames handed to writer.write
    frame_images,     \* cv.imwrite calls
    stats_log,        \* the lines of stats.jsonl
    loops_terminated  \* history: while loops that ran to their end, over all invocations

vars == << pc, outcome, run_no, args, plan_printed, cap, src_pos, src_eof, fps,
           frame_stride, cap_by_time, effective_cap, out_dir_exists,
           frames_dir_exists, overlay_file, writer, actual_warmup,
           recent_centers, frames_processed, frame_index, loop_state,
           detector_calls, render_calls, writer_writes, frame_images,
           stats_log, loops_terminated, src_endless, reported_fps, out_fps >>

procVars == << plan_printed, cap, src_pos, src_eof, fps, frame_stride,
               cap_by_time, effective_cap, writer, actual_warmup,
               recent_centers, frames_processed, frame_index, loop_state,
               detector_calls, render_calls, writer_writes, frame_images,
               src_endless, reported_fps, out_fps >>

fsVars == << out_dir_exists, frames_dir_exists, overlay_file, stats_log >>

samplingVars == << fps, frame_stride, cap_by_time, effective_cap >>

mediaVars == << src_endless, reported_fps >>

loopVars == << recent_centers, frames_processed, frame_index, loop_state,
               detector_calls, render_calls, writer_writes, frame_images >>

\* ----------------------------------------------------------------- helpers

Max(a, b) == IF a >= b THEN a ELSE b
Min(a, b) == IF a <= b THEN a ELSE b

\* Python's round() of num/den, den > 0: to nearest, ties to the even integer.
PyRound(num, den) ==
    LET fl == num \div den
        r2 == 2 * (num % den)
    IN  IF r2 < den THEN fl
        ELSE IF r2 > den THEN fl + 1
        ELSE IF fl % 2 = 0 THEN fl ELSE fl + 1

\* math.floor of num/den, den > 0.
PyFloor(num, den) == num \div den

\* Python's a % b for a >= 0 and b # 0: the result has the sign of b.
PyMod(a, b) ==
    IF b > 0 THEN a % b
    ELSE LET r == a % (0 - b) IN IF r = 0 THEN 0 ELSE r + b

\* pts[-tail:]
LastN(pts, n) ==
    IF Len(pts) <= n THEN pts ELSE SubSeq(pts, Len(pts) - n + 1, Len(pts))

\* fps = cap.get(CAP_PROP_FPS) or 0.0; if fps <= 0.0: fps = 30.0
ResolveFps(reported) == IF reported <= 0 THEN FALLBACK_FPS ELSE reported

\* Variant: an explicitly requested stride (not the default 1) wins over
\* every-seconds.
ResolveStrideExplicitWins(a, f) ==
    IF IsNone(a.every_seconds) \/ a.frame_stride # 1 THEN a.frame_stride
    ELSE Max(1, PyRound(f * Val(a.every_seconds).num, Val(a.every_seconds).den))

\* frame_stride after the every-seconds override.
ResolveStride(a, f) ==
    IF IsNone(a.every_seconds) THEN a.frame_stride
    ELSE Max(1, PyRound(f * Val(a.every_seconds).num, Val(a.every_seconds).den))

\* cap_by_time: None, or the processed-frame cap that max_seconds gives.
ResolveCapByTime(a, f, stride) ==
    IF IsNone(a.max_seconds) THEN None
    ELSE Some(Max(1, PyFloor(f * Val(a.max_seconds).num,
                             Val(a.max_seconds).den * Max(1, stride))))

\* effective_cap = min(max_frames, cap_by_time) if cap_by_time else max_frames
ResolveCap(a, cbt) ==
    IF (~IsNone(cbt)) /\ Val(cbt) # 0 THEN Min(a.max_frames, Val(cbt))
    ELSE a.max_frames

\* Variant: the check of --bootstrap-frames is missing.
ConfigOkNoBootstrapCheck(a) ==
    /\ ~( (~IsNone(a.every_seconds)) /\ Val(a.every_seconds).num <= 0 )
    /\ ~( (~IsNone(a.max_seconds)) /\ Val(a.max_seconds).num <= 0 )

\* The checks main() makes before the plan is printed.
ConfigOk(a) ==
    /\ ~( (~IsNone(a.every_seconds)) /\ Val(a.every_seconds).num <= 0 )
    /\ ~( (~IsNone(a.max_seconds)) /\ Val(a.max_seconds).num <= 0 )
    /\ ~( a.bootstrap_frames < 1 )

\* out_fps = max(5.0, fps / max(1, frame_stride)), as a fraction
OutFps(f, stride) ==
    IF f >= 5 * Max(1, stride) THEN Rat(f, Max(1, stride)) ELSE Rat(5, 1)

\* overlay and (save_video if 'args' in globals() else True)
WantWriter(a) ==
    a.overlay /\ (IF ArgsInGlobals THEN a.save_video ELSE TRUE)

\* cap.read() can deliver a frame / reports end-of-stream.
CanRead == (~src_eof) /\ (src_endless \/ src_pos < MaxSourceFrames)
CanEnd == ~src_endless

\* ------------------------------------------------------------------- Init

Init ==
    /\ pc = "start"
    /\ outcome = "running"
    /\ run_no = 1
    /\ args = NoArgs
    /\ plan_printed = FALSE
    /\ cap = "none"
    /\ src_pos = 0
    /\ src_eof = FALSE
    /\ src_endless = FALSE
    /\ reported_fps = 0
    /\ out_fps = None
    /\ fps = 0
    /\ frame_stride = 0
    /\ cap_by_time = None
    /\ effective_cap = 0
    /\ out_dir_exists = FALSE
    /\ frames_dir_exists = FALSE
    /\ overlay_file = FALSE
    /\ writer = "none"
    /\ actual_warmup = 0
    /\ recent_centers = <<>>
    /\ frames_processed = 0
    /\ frame_index = 0
    /\ loop_state = "NOT_STARTED"
    /\ detector_calls = <<>>
    /\ render_calls = <<>>
    /\ writer_writes = <<>>
    /\ frame_images = <<>>
    /\ stats_log = <<>>
    /\ loops_terminated = 0

\* ------------------------------------------------------------------ main()

\* parser.parse_args()
ParseArgs(A) ==
    /\ pc = "start"
    /\ \E a \in A : args' = a
    /\ pc' = "validate"
    /\ UNCHANGED << outcome, run_no, procVars, fsVars, loops_terminated >>

\* raise SystemExit("[error] ... must be ...")
ConfigError ==
    /\ pc = "validate"
    /\ ~ConfigOk(args)
    /\ pc' = "exit"
    /\ outcome' = "SystemExit"
    /\ UNCHANGED << run_no, args, procVars, fsVars, loops_terminated >>

\* Variant: the plan is printed but the return is missing, detect() is called.
DryRunFallsThrough ==
    /\ pc = "validate"
    /\ ConfigOk(args)
    /\ args.dry_run
    /\ plan_printed' = TRUE
    /\ cap' = "open"
    /\ frame_stride' = args.frame_stride
    /\ pc' = "opened"
    /\ UNCHANGED << outcome, run_no, args, src_pos, src_eof, fps, cap_by_time,
                    effective_cap, mediaVars, writer, out_fps, actual_warmup,
                    loopVars, fsVars, loops_terminated >>

\* if args.dry_run: print the plan; return
DryRun ==
    /\ pc = "validate"
    /\ ConfigOk(args)
    /\ args.dry_run
    /\ plan_printed' = TRUE
    /\ pc' = "exit"
    /\ outcome' = "returned"
    /\ UNCHANGED << run_no, args, cap, src_pos, src_eof, samplingVars,
                    mediaVars, writer, out_fps, actual_warmup, loopVars, fsVars,
                    loops_terminated >>

\* ---------------------------------------------------------------- detect()

\* cap = cv.VideoCapture(...); cap.isOpened()
OpenVideo ==
    /\ pc = "validate"
    /\ ConfigOk(args)
    /\ ~args.dry_run
    /\ cap' = "open"
    /\ src_endless' \in BOOLEAN
    /\ frame_stride' = args.frame_stride
    /\ pc' = "opened"
    /\ UNCHANGED << outcome, run_no, args, plan_printed, src_pos, src_eof, fps,
                    reported_fps, cap_by_time, effective_cap, writer, out_fps,
                    actual_warmup, loopVars, fsVars, loops_terminated >>

\* if not cap.isOpened(): raise SystemExit("[error] cannot open video")
OpenVideoFails ==
    /\ pc = "validate"
    /\ ConfigOk(args)
    /\ ~args.dry_run
    /\ frame_stride' = args.frame_stride
    /\ pc' = "exit"
    /\ outcome' = "SystemExit"
    /\ UNCHANGED << run_no, args, plan_printed, cap, src_pos, src_eof, fps,
                    mediaVars, cap_by_time, effective_cap, writer, out_fps,
                    actual_warmup, loopVars, fsVars, loops_terminated >>

\* fps, the every-seconds stride, cap_by_time, effective_cap
ResolveSampling ==
    /\ pc = "opened"
    /\ \E reported \in ReportedFps :
         LET f == ResolveFps(reported)
             s == ResolveStride(args, f)
             c == ResolveCapByTime(args, f, s)
         IN  /\ reported_fps' = reported
             /\ fps' = f
             /\ frame_stride' = s
             /\ cap_by_time' = c
             /\ effective_cap' = ResolveCap(args, c)
    /\ pc' = "outputs"
    /\ UNCHANGED << outcome, run_no, args, plan_printed, cap, src_pos, src_eof,
                    src_endless, writer, out_fps, actual_warmup, loopVars,
                    fsVars, loops_terminated >>

\* ensure_dir(out_dir); the overlay writer; ensure_dir(frames_dir)
SetupOutputs ==
    /\ pc = "outputs"
    /\ out_dir_exists' = TRUE
    /\ IF WantWriter(args)
       THEN /\ writer' = "open"
            /\ out_fps' = Some(OutFps(fps, frame_stride))
            /\ overlay_file' = TRUE
       ELSE UNCHANGED << writer, out_fps, overlay_file >>
    /\ frames_dir_exists' = (frames_dir_exists \/ args.write_frames)
    /\ pc' = "roi"
    /\ UNCHANGED << outcome, run_no, args, plan_printed, cap, src_pos, src_eof,
                    samplingVars, mediaVars, actual_warmup, loopVars, stats_log,
                    loops_terminated >>

\* rim_roi = parse_roi(rim_roi_arg), or the default band; actual_warmup = 0
RimRoi ==
    /\ pc = "roi"
    /\ args.rim_roi # "malformed"
    /\ actual_warmup' = 0
    /\ pc' = "warmup"
    /\ UNCHANGED << outcome, run_no, args, plan_printed, cap, src_pos, src_eof,
                    samplingVars, mediaVars, writer, out_fps, loopVars, fsVars, loops_terminated >>

\* parse_roi raises ValueError: int() of a non-number, or not four values
RimRoiFails ==
    /\ pc = "roi"
    /\ args.rim_roi = "malformed"
    /\ pc' = "exit"
    /\ outcome' = "ValueError"
    /\ UNCHANGED << run_no, args, procVars, fsVars, loops_terminated >>

\* Variant: the main-loop index is one-based.
EnterLoopOneBased ==
    /\ recent_centers' = <<>>
    /\ frames_processed' = 0
    /\ frame_index' = 1
    /\ loop_state' = "RUNNING"
    /\ pc' = "loop"

\* recent_centers = []; frames_processed = 0; frame_index = 0
EnterLoop ==
    /\ recent_centers' = <<>>
    /\ frames_processed' = 0
    /\ frame_index' = 0
    /\ loop_state' = "RUNNING"
    /\ pc' = "loop"

\* Variant: a warm-up frame is counted as a main-loop frame.
WarmupReadCounts ==
    /\ pc = "warmup"
    /\ actual_warmup < args.bootstrap_frames
    /\ CanRead
    /\ src_pos' = src_pos + 1
    /\ actual_warmup' = actual_warmup + 1
    /\ frame_index' = frame_index + 1
    /\ UNCHANGED << pc, outcome, run_no, args, plan_printed, cap, src_eof,
                    samplingVars, mediaVars, writer, out_fps, recent_centers, frames_processed,
                    loop_state, detector_calls, render_calls, writer_writes,
                    frame_images, fsVars, loops_terminated >>

\* warm-up iteration: ret, frame = cap.read(); actual_warmup += 1
WarmupRead ==
    /\ pc = "warmup"
    /\ actual_warmup < args.bootstrap_frames
    /\ CanRead
    /\ src_pos' = src_pos + 1
    /\ actual_warmup' = actual_warmup + 1
    /\ UNCHANGED << pc, outcome, run_no, args, plan_printed, cap, src_eof,
                    samplingVars, mediaVars, writer, out_fps, loopVars, fsVars, loops_terminated >>

\* warm-up iteration: if not ret: break
WarmupEof ==
    /\ pc = "warmup"
    /\ actual_warmup < args.bootstrap_frames
    /\ CanEnd
    /\ src_eof' = TRUE
    /\ EnterLoop
    /\ UNCHANGED << outcome, run_no, args, plan_printed, cap, src_pos,
                    samplingVars, mediaVars, writer, out_fps, actual_warmup, detector_calls,
                    render_calls, writer_writes, frame_images, fsVars,
                    loops_terminated >>

\* range(bootstrap_frames) is exhausted
WarmupDone ==
    /\ pc = "warmup"
    /\ ~(actual_warmup < args.bootstrap_frames)
    /\ EnterLoop
    /\ UNCHANGED << outcome, run_no, args, plan_printed, cap, src_pos, src_eof,
                    samplingVars, mediaVars, writer, out_fps, actual_warmup, detector_calls,
                    render_calls, writer_writes, frame_images, fsVars,
                    loops_terminated >>

\* while frames_processed < effective_cap: the condition is false
LoopCapReached ==
    /\ pc = "loop"
    /\ ~(frames_processed < effective_cap)
    /\ loop_state' = "DONE_BY_CAP"
    /\ loops_terminated' = loops_terminated + 1
    /\ pc' = "stats"
    /\ UNCHANGED << outcome, run_no, args, plan_printed, cap, src_pos, src_eof,
                    samplingVars, mediaVars, writer, out_fps, actual_warmup, recent_centers,
                    frames_processed, frame_index, detector_calls, render_calls,
                    writer_writes, frame_images, fsVars >>

\* ret, frame = cap.read(); if not ret: break
LoopEof ==
    /\ pc = "loop"
    /\ frames_processed < effective_cap
    /\ CanEnd
    /\ src_eof' = TRUE
    /\ loop_state' = "DONE_BY_EOF"
    /\ loops_terminated' = loops_terminated + 1
    /\ pc' = "stats"
    /\ UNCHANGED << outcome, run_no, args, plan_printed, cap, src_pos,
                    samplingVars, mediaVars, writer, out_fps, actual_warmup, recent_centers,
                    frames_processed, frame_index, detector_calls, render_calls,
                    writer_writes, frame_images, fsVars >>

\* frame_index % frame_stride with frame_stride = 0: ZeroDivisionError
LoopStrideZero ==
    /\ pc = "loop"
    /\ frames_processed < effective_cap
    /\ CanRead
    /\ frame_stride = 0
    /\ src_pos' = src_pos + 1
    /\ pc' = "exit"
    /\ outcome' = "ZeroDivisionError"
    /\ UNCHANGED << run_no, args, plan_printed, cap, src_eof, samplingVars, mediaVars,
                    writer, out_fps, actual_warmup, loopVars, fsVars, loops_terminated >>

\* Variant: the detector runs before the sampling test, on every frame read.
LoopSkipDetects ==
    /\ pc = "loop"
    /\ frames_processed < effective_cap
    /\ CanRead
    /\ frame_stride # 0
    /\ PyMod(frame_index, frame_stride) # 0
    /\ src_pos' = src_pos + 1
    /\ frame_index' = frame_index + 1
    /\ \E centers \in Detections :
         detector_calls' =
             Append(detector_calls,
                    [pos |-> src_pos, index |-> frame_index, centers |-> centers])
    /\ UNCHANGED << pc, outcome, run_no, args, plan_printed, cap, src_eof,
                    samplingVars, mediaVars, writer, out_fps, actual_warmup, recent_centers,
                    frames_processed, loop_state, render_calls,
                    writer_writes, frame_images, fsVars, loops_terminated >>

\* a frame is read and frame_index % frame_stride != 0: frame_index += 1
LoopSkip ==
    /\ pc = "loop"
    /\ frames_processed < effective_cap
    /\ CanRead
    /\ frame_stride # 0
    /\ PyMod(frame_index, frame_stride) # 0
    /\ src_pos' = src_pos + 1
    /\ frame_index' = frame_index + 1
    /\ UNCHANGED << pc, outcome, run_no, args, plan_printed, cap, src_eof,
                    samplingVars, mediaVars, writer, out_fps, actual_warmup, recent_centers,
                    frames_processed, loop_state, detector_calls, render_calls,
                    writer_writes, frame_images, fsVars, loops_terminated >>

\* Variant: frame_index += 1 sits in an else branch, a sampled frame does not
\* advance the index.
LoopSampleKeepsIndex ==
    /\ pc = "loop"
    /\ frames_processed < effective_cap
    /\ CanRead
    /\ frame_stride # 0
    /\ PyMod(frame_index, frame_stride) = 0
    /\ src_pos' = src_pos + 1
    /\ \E centers \in Detections :
         detector_calls' =
             Append(detector_calls,
                    [pos |-> src_pos, index |-> frame_index, centers |-> centers])
    /\ IF args.write_frames
       THEN frame_images' =
                Append(frame_images,
                       [name |-> frame_index, pos |-> src_pos,
                        annotated |-> args.overlay])
       ELSE UNCHANGED frame_images
    /\ frames_processed' = frames_processed + 1
    /\ UNCHANGED << pc, outcome, run_no, args, plan_printed, cap, src_eof,
                    samplingVars, mediaVars, writer, out_fps, actual_warmup, recent_centers,
                    frame_index, loop_state, render_calls, writer_writes,
                    fsVars, loops_terminated >>

\* a frame is read and frame_index % frame_stride == 0: the sampling branch
LoopSample ==
    /\ pc = "loop"
    /\ frames_processed < effective_cap
    /\ CanRead
    /\ frame_stride # 0
    /\ PyMod(frame_index, frame_stride) = 0
    /\ src_pos' = src_pos + 1
    /\ \E centers \in Detections :
         LET ball_c == IF centers # <<>> THEN Some(centers[1]) ELSE None
         IN  /\ detector_calls' =
                   Append(detector_calls,
                          [pos |-> src_pos, index |-> frame_index, centers |-> centers])
             /\ IF args.overlay
                THEN /\ render_calls' =
                          Append(render_calls,
                                 [pos |-> src_pos, index |-> frame_index,
                                  ball |-> ball_c,
                                  path |-> LastN(recent_centers, TAIL)])
                     /\ IF writer # "none"
                        THEN writer_writes' =
                                 Append(writer_writes,
                                        [pos |-> src_pos, index |-> frame_index])
                        ELSE UNCHANGED writer_writes
                ELSE UNCHANGED << render_calls, writer_writes >>
             /\ IF args.write_frames
                THEN frame_images' =
                         Append(frame_images,
                                [name |-> frame_index, pos |-> src_pos,
                                 annotated |-> args.overlay])
                ELSE UNCHANGED frame_images
    /\ frames_processed' = frames_processed + 1
    /\ frame_index' = frame_index + 1
    /\ UNCHANGED << pc, outcome, run_no, args, plan_printed, cap, src_eof,
                    samplingVars, mediaVars, writer, out_fps, actual_warmup, recent_centers,
                    loop_state, fsVars, loops_terminated >>

\* The record detect() builds after the loop.
StatsRecord ==
    [ fps |-> fps,
      overlay |-> args.overlay,
      bootstrap_frames_requested |-> args.bootstrap_frames,
      bootstrap_frames_read |-> actual_warmup,
      frame_stride |-> frame_stride,
      max_frames |-> args.max_frames,
      frames_processed |-> frames_processed,
      effective_cap_processed_frames |-> effective_cap,
      dry_run |-> args.dry_run,
      every_seconds |-> args.every_seconds,
      max_seconds |-> args.max_seconds ]

\* Variant: stats_path.open("w"), the file is rewritten by every run.
WriteStatsTruncates ==
    /\ pc = "stats"
    /\ stats_log' = << StatsRecord >>
    /\ pc' = "release"
    /\ UNCHANGED << outcome, run_no, args, procVars, out_dir_exists,
                    frames_dir_exists, overlay_file, loops_terminated >>

\* with stats_path.open("a") as f: f.write(json.dumps(stats) + "\n")
WriteStats ==
    /\ pc = "stats"
    /\ stats_log' = Append(stats_log, StatsRecord)
    /\ pc' = "release"
    /\ UNCHANGED << outcome, run_no, args, procVars, out_dir_exists,
                    frames_dir_exists, overlay_file, loops_terminated >>

\* cap.release(); if writer is not None: writer.release()
Release ==
    /\ pc = "release"
    /\ cap' = "released"
    /\ writer' = (IF writer # "none" THEN "released" ELSE writer)
    /\ pc' = "exit"
    /\ outcome' = "returned"
    /\ UNCHANGED << run_no, args, plan_printed, src_pos, src_eof, samplingVars,
                    mediaVars, out_fps,
                    actual_warmup, loopVars, fsVars, loops_terminated >>

\* The script is run again: a new process, the same output directory.
NextInvocation ==
    /\ pc = "exit"
    /\ run_no < MaxRuns
    /\ run_no' = run_no + 1
    /\ pc' = "start"
    /\ outcome' = "running"
    /\ args' = NoArgs
    /\ plan_printed' = FALSE
    /\ cap' = "none"
    /\ src_pos' = 0
    /\ src_eof' = FALSE
    /\ src_endless' = FALSE
    /\ reported_fps' = 0
    /\ out_fps' = None
    /\ fps' = 0
    /\ frame_stride' = 0
    /\ cap_by_time' = None
    /\ effective_cap' = 0
    /\ writer' = "none"
    /\ actual_warmup' = 0
    /\ recent_centers' = <<>>
    /\ frames_processed' = 0
    /\ frame_index' = 0
    /\ loop_state' = "NOT_STARTED"
    /\ detector_calls' = <<>>
    /\ render_calls' = <<>>
    /\ writer_writes' = <<>>
    /\ frame_images' = <<>>
    /\ UNCHANGED << fsVars, loops_terminated >>

\* ----------------------------------------------------------- specifications

Steps ==
    \/ ConfigError
    \/ DryRun
    \/ OpenVideo
    \/ OpenVideoFails
    \/ ResolveSampling
    \/ SetupOutputs
    \/ RimRoi
    \/ RimRoiFails
    \/ WarmupRead
    \/ WarmupEof
    \/ WarmupDone
    \/ LoopCapReached
    \/ LoopEof
    \/ LoopStrideZero
    \/ LoopSkip
    \/ LoopSample
    \/ WriteStats
    \/ Release

\* One invocation, over every command line of Args.
Next == ParseArgs(Args) \/ Steps

Spec == Init /\ [][Next]_vars

\* Up to MaxRuns invocations against the same output directory.
NextRuns == ParseArgs(RunsArgs) \/ Steps \/ NextInvocation

SpecRuns == Init /\ [][NextRuns]_vars

\* One invocation that keeps running: the interpreter executes the next
\* statement whenever there is one (single-threaded, no blocking call).
SpecFair == Spec /\ WF_vars(Next)

\* ------------------------------------------------------------------ claims

\* detect() is past the sampling computation (lines 149-170).
SamplingResolved == cap # "none" /\ pc # "opened"

\* detect() is in or past the main loop, on the path that returns.
InOrAfterLoop == pc \in {"loop", "stats", "release"}

\* The main-loop indices the detector was run on.
SampledIndices == { detector_calls[i].index : i \in 1..Len(detector_calls) }

\* floor(num / den) for den # 0 of either sign.
FloorQ(num, den) == IF den > 0 THEN num \div den ELSE (0 - num) \div (0 - den)

\* s is max(1, r) for an integer r nearest to num/den (either one on a tie).
IsMaxOneRound(s, num, den) ==
    \/ s >= 1 /\ 2 * (s * den - num) <= den /\ 2 * (num - s * den) <= den
    \/ s = 1 /\ 2 * (num - den) <= den

\* C1: in every state of the main loop frames_processed <= effective_cap, and
\* once frames_processed = effective_cap no further frame is read from the
\* source.
C1_CapNeverExceeded ==
    [][ /\ (pc \in {"loop", "stats"} => frames_processed <= effective_cap)
        /\ (pc \in {"loop", "stats"} /\ frames_processed = effective_cap
              => src_pos' = src_pos) ]_vars

\* C2: with every_seconds set, the stride of the modulo sampling test is
\* max(1, round(fps * every_seconds)) whatever stride was requested; with
\* every_seconds absent it is the requested frame_stride.  The frames the
\* detector ran on are exactly the main-loop frames whose index is 0 modulo
\* that stride.
C2_EverySecondsStride ==
    SamplingResolved =>
      /\ IF IsNone(args.every_seconds)
         THEN frame_stride = args.frame_stride
         ELSE IsMaxOneRound(frame_stride, fps * Val(args.every_seconds).num,
                            Val(args.every_seconds).den)
      /\ InOrAfterLoop /\ frame_index > 0 =>
           /\ frame_stride # 0
           /\ \A i \in 0..(frame_index - 1) :
                (i \in SampledIndices) <=> (PyMod(i, frame_stride) = 0)

\* C2 witness: every-seconds 1.25 at 2 fps gave stride 2 although stride 1 was
\* requested, and frames 0 and 2 were sampled while frame 1 was not.
C2_Witness ==
    /\ pc = "loop"
    /\ ~IsNone(args.every_seconds)
    /\ args.frame_stride = 1
    /\ frame_stride = 2
    /\ frame_index = 3
    /\ SampledIndices = {0, 2}

\* C3: with max_seconds set, effective_cap = min(max_frames, max(1,
\* floor(fps * max_seconds / effective_stride))); with max_seconds absent,
\* effective_cap = max_frames.  (A stride of 0 leaves the quotient undefined and
\* is not constrained here.)
C3_EffectiveCap ==
    SamplingResolved =>
      IF IsNone(args.max_seconds)
      THEN effective_cap = args.max_frames
      ELSE frame_stride # 0 =>
             effective_cap =
               Min(args.max_frames,
                   Max(1, FloorQ(fps * Val(args.max_seconds).num,
                                 Val(args.max_seconds).den * frame_stride)))

\* C4: during warm-up frame_index and frames_processed stay 0, and they are 0
\* when the main loop starts; actual_warmup <= bootstrap_frames, and it is
\* smaller only if the source reported end-of-stream during warm-up.
C4_WarmupCounters ==
    /\ pc = "warmup" =>
         /\ frame_index = 0
         /\ frames_processed = 0
         /\ actual_warmup <= args.bootstrap_frames
         /\ src_pos = actual_warmup
    /\ pc = "loop" /\ src_pos = actual_warmup =>
         frame_index = 0 /\ frames_processed = 0
    /\ InOrAfterLoop =>
         /\ actual_warmup <= args.bootstrap_frames
         /\ actual_warmup < args.bootstrap_frames =>
              src_eof /\ src_pos = actual_warmup

\* C4 witness: the main loop starts after a warm-up cut short by the end of
\* the source.
C4_Witness ==
    /\ pc = "loop"
    /\ actual_warmup = 1
    /\ args.bootstrap_frames = 2
    /\ src_eof

\* C5: the detector, the renderer, the overlay writer and the frame-image
\* writer only ever get a frame read in the main loop whose zero-based
\* main-loop index is 0 modulo the stride; frames that do not match still
\* advance frame_index (frame_index counts every main-loop frame read).
C5_OnlySampledFramesReachSinks ==
    LET Sampled(pos, index) ==
          /\ pos >= actual_warmup
          /\ index = pos - actual_warmup
          /\ frame_stride # 0
          /\ PyMod(index, frame_stride) = 0
    IN  /\ \A i \in 1..Len(detector_calls) :
             Sampled(detector_calls[i].pos, detector_calls[i].index)
        /\ \A i \in 1..Len(render_calls) :
             Sampled(render_calls[i].pos, render_calls[i].index)
        /\ \A i \in 1..Len(writer_writes) :
             Sampled(writer_writes[i].pos, writer_writes[i].index)
        /\ \A i \in 1..Len(frame_images) :
             Sampled(frame_images[i].pos, frame_images[i].name)
        /\ InOrAfterLoop => frame_index = src_pos - actual_warmup

\* C5 witness: after a warm-up frame, main-loop frames 0 and 2 went through
\* the detector and every sink, frame 1 through none.
C5_Witness ==
    /\ pc = "loop"
    /\ actual_warmup >= 1
    /\ frame_index = 3
    /\ Len(detector_calls) = 2
    /\ Len(render_calls) = 2
    /\ Len(writer_writes) = 2
    /\ Len(frame_images) = 2

\* C6: every run whose loop terminates appends exactly one record to the stats
\* log, after the loop, carrying the run's final frames_processed and
\* actual_warmup; no step removes or changes an earlier record, so the log
\* holds one record per terminated loop, in run order.
C6_OneRecordPerRun ==
    [][ /\ \/ stats_log' = stats_log
           \/ /\ pc = "stats"
              /\ Len(stats_log') = Len(stats_log) + 1
              /\ SubSeq(stats_log', 1, Len(stats_log)) = stats_log
              /\ stats_log'[Len(stats_log')].frames_processed = frames_processed
              /\ stats_log'[Len(stats_log')].bootstrap_frames_read = actual_warmup
        /\ pc = "stats" /\ pc' # "stats" => stats_log' # stats_log
        /\ Len(stats_log') =
             loops_terminated' - (IF pc' = "stats" THEN 1 ELSE 0) ]_vars

\* C6 witness: two runs have returned and the log holds their two records.
C6_Witness ==
    /\ run_no = 2
    /\ pc = "exit"
    /\ outcome = "returned"
    /\ loops_terminated = 2
    /\ Len(stats_log) = 2
    /\ stats_log[1].frames_processed # stats_log[2].frames_processed

\* The request is within the documented domain: stride >= 1, max_frames >= 1.
\* C7, C9 and C10 are stated for such requests only, so that what refutes
\* them is a run on values nobody disputes.
RequestInDomain == args.frame_stride >= 1 /\ args.max_frames >= 1

\* C7: no exit path of a run that opened the source leaves it acquired:
\* whenever the invocation has ended, by return or by an error raised after
\* the source was opened, the source is not open any more.
C7_SourceReleasedOnEveryExit ==
    RequestInDomain /\ pc = "exit" => cap # "open"

\* C8: a source of N < bootstrap_frames frames: warm-up consumes all N and
\* stops without error, the main loop ends by end-of-stream on its first read
\* with frames_processed = 0 and frame_index = 0, and the record is appended
\* with these values.
C8_SourceShorterThanWarmup ==
    (InOrAfterLoop \/ pc = "exit")
      /\ cap # "none" /\ src_eof /\ src_pos < args.bootstrap_frames
      /\ loop_state # "NOT_STARTED" =>
        /\ actual_warmup = src_pos
        /\ frames_processed = 0
        /\ frame_index = 0
        /\ loop_state \in {"RUNNING", "DONE_BY_EOF"}
        /\ outcome \in {"running", "returned"}
        /\ pc \in {"release", "exit"} =>
             /\ stats_log # <<>>
             /\ stats_log[Len(stats_log)].frames_processed = 0
             /\ stats_log[Len(stats_log)].bootstrap_frames_read = src_pos

\* C9: the overlay writer (and overlay.mp4) exists only if the overlay flag
\* and the save-video flag are both set.
C9_WriterNeedsBothFlags ==
    RequestInDomain /\ (writer # "none" \/ overlay_file) =>
      (args.overlay /\ args.save_video)

\* The first center of every non-empty detection so far, in order.
FirstCenters ==
    LET hits == SelectSeq(detector_calls, LAMBDA c : c.centers # <<>>)
    IN  [ i \in 1..Len(hits) |-> hits[i].centers[1] ]

\* C10: after every sampled frame the trajectory history holds the first
\* center of each non-empty detection so far, in order, and rendering gets at
\* most its last 40 points.
C10_TrajectoryHistory ==
    RequestInDomain /\ InOrAfterLoop =>
      /\ recent_centers = FirstCenters
      /\ \A i \in 1..Len(render_calls) : Len(render_calls[i].path) <= TAIL

\* C11: with overlays and frame-image writing both enabled, the image handed
\* to the frame-image sink is the frame as read from the source, without the
\* renderer's drawing.
C11_FrameImagesUnannotated ==
    RequestInDomain =>
      \A i \in 1..Len(frame_images) : ~frame_images[i].annotated

\* C12: a dry-run invocation never calls detect(): it opens no source,
\* creates no directory or file, creates no overlay writer and appends no
\* record; it prints the plan and returns.
C12_DryRunDoesNoIO ==
    args.dry_run =>
      /\ cap = "none"
      /\ src_pos = 0
      /\ writer = "none"
      /\ ~out_dir_exists
      /\ ~frames_dir_exists
      /\ ~overlay_file
      /\ stats_log = <<>>
      /\ pc \in {"validate", "exit"}
      /\ pc = "exit" /\ outcome = "returned" => plan_printed
      /\ pc = "exit" =>
           outcome =
             (IF \/ (~IsNone(args.every_seconds)) /\ Val(args.every_seconds).num <= 0
                 \/ (~IsNone(args.max_seconds)) /\ Val(args.max_seconds).num <= 0
                 \/ args.bootstrap_frames < 1
              THEN "SystemExit" ELSE "returned")

\* C12 witness: a dry run with overlay, save-video and write-frames set has
\* printed its plan and returned.
C12_Witness ==
    /\ pc = "exit"
    /\ outcome = "returned"
    /\ args.dry_run
    /\ args.overlay /\ args.save_video /\ args.write_frames
    /\ plan_printed

\* C13: every run that passes the validation reaches the main loop with
\* effective_stride >= 1 and effective_cap >= 1, neither changes during the
\* loop, and a frame-stride or max-frames below 1 ends the invocation with a
\* configuration error (SystemExit) before the loop.
C13_StrideAndCapAtLeastOne ==
    [][ /\ pc = "loop" => frame_stride >= 1 /\ effective_cap >= 1
        /\ pc = "loop" =>
             frame_stride' = frame_stride /\ effective_cap' = effective_cap
        /\ (args.frame_stride < 1 \/ args.max_frames < 1) /\ pc = "validate" =>
             pc' = "exit" /\ outcome' = "SystemExit" ]_vars

\* C14: a configuration error (every_seconds <= 0, max_seconds <= 0 or
\* bootstrap_frames < 1) ends the invocation with SystemExit before any I/O:
\* no source opened, no directory or file created, no record appended.  A
\* source that cannot be opened ends it the same way, and no failure before
\* the loop starts leaves a record in the log.
C14_ConfigErrorBeforeIO ==
    LET bad == \/ (~IsNone(args.every_seconds)) /\ Val(args.every_seconds).num <= 0
               \/ (~IsNone(args.max_seconds)) /\ Val(args.max_seconds).num <= 0
               \/ args.bootstrap_frames < 1
    IN  /\ bad =>
             /\ pc \in {"validate", "exit"}
             /\ pc = "exit" => outcome = "SystemExit"
             /\ cap = "none"
             /\ src_pos = 0
             /\ writer = "none"
             /\ ~out_dir_exists /\ ~frames_dir_exists /\ ~overlay_file
             /\ stats_log = <<>>
        /\ pc = "exit" /\ outcome = "SystemExit" /\ ~bad =>
             /\ cap = "none"
             /\ src_pos = 0
             /\ ~out_dir_exists
             /\ stats_log = <<>>
        /\ pc = "exit" /\ loop_state = "NOT_STARTED" => stats_log = <<>>

\* C14 witness: --bootstrap-frames 0 on an otherwise runnable command line has
\* ended in SystemExit.
C14_Witness ==
    /\ pc = "exit"
    /\ outcome = "SystemExit"
    /\ args.bootstrap_frames = 0
    /\ IsNone(args.every_seconds) /\ IsNone(args.max_seconds)
    /\ ~args.dry_run
    /\ args.overlay /\ args.write_frames

\* s is strictly increasing in Key and in the source position.
Increasing(s, Key(_)) ==
    \A i, j \in 1..Len(s) : i < j => Key(s[i]) < Key(s[j]) /\ s[i].pos < s[j].pos

\* C15: detector calls, renderer calls, overlay writes and frame-image writes
\* each happen in strictly increasing frame_index order (so no two sampled
\* frames share an index and the image names of a run are distinct), and all
\* of them for a sampled frame are done before the next frame is read: in
\* every state each sink has handled exactly the frames the detector has.
C15_StrictFrameOrder ==
    LET Idx(e) == e.index
        Name(e) == e.name
        seen == [ i \in 1..Len(detector_calls) |-> detector_calls[i].index ]
    IN  /\ Increasing(detector_calls, Idx)
        /\ Increasing(render_calls, Idx)
        /\ Increasing(writer_writes, Idx)
        /\ Increasing(frame_images, Name)
        /\ \A i \in 1..Len(detector_calls) :
             /\ detector_calls[i].index < frame_index
             /\ detector_calls[i].pos < src_pos
        /\ args.overlay =>
             [ i \in 1..Len(render_calls) |-> render_calls[i].index ] = seen
        /\ writer # "none" =>
             [ i \in 1..Len(writer_writes) |-> writer_writes[i].index ] = seen
        /\ args.write_frames =>
             [ i \in 1..Len(frame_images) |-> frame_images[i].name ] = seen

\* C15 witness: three frames were sampled with stride 1 and written to both
\* sinks.
C15_Witness ==
    /\ Len(detector_calls) = 3
    /\ Len(writer_writes) = 3
    /\ Len(frame_images) = 3
    /\ frame_images[3].name = 2

\* C16: while the overlay writer exists it has received exactly one write per
\* sampled frame; it is released only if it was constructed; and it is not
\* left open on any exit path of the run, errors included.  (Stated for runs
\* with --save-video, where nobody disputes that the writer is to exist.)
C16_WriterLifetime ==
    RequestInDomain /\ args.save_video =>
      /\ writer # "none" => Len(writer_writes) = frames_processed
      /\ writer = "none" => writer_writes = <<>>
      /\ pc = "exit" => writer # "open"

\* The while loop has ended.
LoopDone == loop_state \in {"DONE_BY_CAP", "DONE_BY_EOF"}

\* C17 (the run ends in exactly one of the two states): for a stride >= 1 the
\* loop ends either by cap with frames_processed = effective_cap or by an
\* end-of-stream read; once it has ended no further frame is read and the
\* way it ended does not change.
C17_EndsByCapOrEof ==
    [][ frame_stride >= 1 /\ pc \in {"loop", "stats", "release"} =>
          /\ loop_state' = "DONE_BY_CAP" => frames_processed' = effective_cap'
          /\ loop_state' = "DONE_BY_EOF" => src_eof'
          /\ LoopDone => src_pos' = src_pos /\ loop_state' = loop_state ]_vars

\* C17 (termination), under SpecFair: a run that entered the loop with a
\* stride >= 1 leaves RUNNING, appends its record and releases the source,
\* also over a source that never ends.
C17_EventuallyReturns ==
    (pc = "loop" /\ frame_stride >= 1) ~>
      (pc = "exit" /\ outcome = "returned" /\ LoopDone /\ cap = "released")

\* a/b = c/d for fractions with non-zero denominators.
SameFraction(x, y) == x.num * y.den = y.num * x.den

\* C18: with a reported fps <= 0 every derived quantity is computed from
\* fps = 30, with a reported fps > 0 from that value: the every-seconds
\* stride, the max-seconds cap, the overlay frame rate
\* max(5.0, fps / effective_stride) and the fps of the record.  (A stride of
\* 0 leaves the quotients undefined and is not constrained.)
C18_FpsFallback ==
    SamplingResolved =>
      LET F == IF reported_fps <= 0 THEN 30 ELSE reported_fps
          claimedOut ==
            IF frame_stride > 0 /\ F >= 5 * frame_stride
            THEN Rat(F, frame_stride) ELSE Rat(5, 1)
      IN  /\ fps = F
          /\ ~IsNone(args.every_seconds) =>
               IsMaxOneRound(frame_stride, F * Val(args.every_seconds).num,
                             Val(args.every_seconds).den)
          /\ (~IsNone(args.max_seconds)) /\ frame_stride # 0 =>
               effective_cap =
                 Min(args.max_frames,
                     Max(1, FloorQ(F * Val(args.max_seconds).num,
                                   Val(args.max_seconds).den * frame_stride)))
          /\ (~IsNone(out_fps)) /\ frame_stride # 0 =>
               SameFraction(Val(out_fps), claimedOut)
          /\ pc \in {"release", "exit"} /\ LoopDone =>
               stats_log[Len(stats_log)].fps = F

\* ceil(a / b) for a >= 0, b >= 1.
CeilDiv(a, b) == (a + b - 1) \div b

\* The lengths the source can have, given what the run has seen of it.
PossibleLengths ==
    IF src_eof THEN {src_pos} ELSE src_pos..(src_pos + frame_stride + 1)

\* C19: for a source of T frames, warm-up B, stride s >= 1 and cap c >= 1, a
\* run whose loop has ended has actual_warmup = min(B, T) and
\* frames_processed = min(c, ceil(M / s)) with M = T - min(B, T); the sampled
\* indices are exactly 0, s, 2s, ...; and frames_processed >= 1 when M >= 1.
C19_FramesProcessedClosedForm ==
    pc \in {"stats", "release"} /\ frame_stride >= 1 /\ effective_cap >= 1 =>
      \A T \in PossibleLengths :
        LET W == Min(args.bootstrap_frames, T)
            M == T - W
        IN  /\ actual_warmup = W
            /\ frames_processed = Min(effective_cap, CeilDiv(M, frame_stride))
            /\ SampledIndices =
                 { k * frame_stride : k \in 0..(frames_processed - 1) }
            /\ M >= 1 => frames_processed >= 1

\* C19 witness: three frames were left after warm-up, stride 2, cap 3: the
\* loop ended by end-of-stream with two frames processed.
C19_Witness ==
    /\ pc = "stats"
    /\ src_eof
    /\ frame_stride = 2
    /\ effective_cap = 3
    /\ src_pos - actual_warmup = 3
    /\ frames_processed = 2

\* C20: with max_seconds set, the main loop never reads more than
\* max(1, floor(fps * max_seconds)) frames, and a run that ends by cap has
\* read exactly (effective_cap - 1) * effective_stride + 1 of them.
C20_TimeBudget ==
    (~IsNone(args.max_seconds)) /\ InOrAfterLoop =>
      /\ src_pos - actual_warmup <=
           Max(1, FloorQ(fps * Val(args.max_seconds).num,
                         Val(args.max_seconds).den))
      /\ loop_state = "DONE_BY_CAP" =>
           src_pos - actual_warmup = (effective_cap - 1) * frame_stride + 1

====
